---- MODULE Spec2Model ----
(***************************************************************************)
(* Model of the buzz-in server (src/server.js): the shared state           *)
(* guests / buzzRecords / roundStartTime / isRoundActive and the socket.io *)
(* handlers register, buzz, startRound, clearRecords, getState and         *)
(* disconnect.  Node runs every handler to completion on one event loop,   *)
(* so each handler is one atomic action.                                   *)
(***************************************************************************)
EXTENDS Integers, Sequences, FiniteSets, TLC

\* ---- bounds ----
NumSockets == 2
MaxTime == 1

\* ---- values ----
Sockets == 1..NumSockets
All == 0                      \* destination of io.emit (every connection)
Null == -1                    \* roundStartTime = null (Date.now() is >= 0)
NoName == <<>>                \* socket.guestName undefined (falsy)
Space == " "

\* names are sequences of characters, so that trim() is computed
RawNames == { <<>>, <<" ">>, <<" ", "a", " ">>, <<"b">> }

VARIABLES
    guests,          \* Map name -> socket id
    buzzRecords,     \* array of { name, time, timestamp }
    roundStartTime,  \* Date.now() of the last startRound, or Null
    isRoundActive,   \* boolean
    guestName,       \* socket.guestName of each socket
    status,          \* each socket: "fresh", "connected", "disconnected"
    now,             \* the value Date.now() returns
    out,             \* the messages emitted by the last handler, in order
    lastSignal,      \* the signal handled last: [op, sock]
    ledgerBefore     \* buzzRecords at the entry of the last handler

vars == << guests, buzzRecords, roundStartTime, isRoundActive, guestName,
           status, now, out, lastSignal, ledgerBefore >>

\* ---- pure helpers ----

\* String.prototype.trim on a sequence of characters
RECURSIVE TrimStart(_)
TrimStart(str) ==
    IF str # <<>> /\ Head(str) = Space THEN TrimStart(Tail(str)) ELSE str

RECURSIVE TrimEnd(_)
TrimEnd(str) ==
    IF str # <<>> /\ str[Len(str)] = Space
    THEN TrimEnd(SubSeq(str, 1, Len(str) - 1))
    ELSE str

Trim(str) == TrimEnd(TrimStart(str))

\* JS truthiness of a string: non-empty
Truthy(str) == str # <<>>

\* ToNumber applied by the subtraction now - roundStartTime (null -> 0)
ToNumber(v) == IF v = Null THEN 0 ELSE v

\* guests.set(name, id)
MapSet(m, k, v) == [x \in (DOMAIN m) \cup {k} |-> IF x = k THEN v ELSE m[x]]

\* guests.delete(name)
MapDelete(m, k) == [x \in (DOMAIN m) \ {k} |-> m[x]]

\* guests.size
MapSize(m) == Cardinality(DOMAIN m)

\* a message; every message carries every field so that messages compare
Msg(to, event) ==
    [ to |-> to, event |-> event, success |-> FALSE, position |-> 0,
      message |-> "", name |-> <<>>, records |-> <<>>, count |-> 0,
      active |-> FALSE ]

MsgRegistered(s, n) ==
    [Msg(s, "registered") EXCEPT !.success = TRUE, !.name = n]
MsgGuestCount(to, c) == [Msg(to, "guestCount") EXCEPT !.count = c]
MsgBuzzRejected(s, m) == [Msg(s, "buzzResult") EXCEPT !.message = m]
MsgBuzzAccepted(s, p) ==
    [Msg(s, "buzzResult") EXCEPT !.success = TRUE, !.position = p]
MsgBuzzUpdate(to, recs) == [Msg(to, "buzzUpdate") EXCEPT !.records = recs]
MsgRoundState(s, a) == [Msg(s, "roundState") EXCEPT !.active = a]

NotActiveText == "NotActive"          \* '請等待主持人開始'
AlreadyBuzzedText == "AlreadyBuzzed"  \* '你已經搶答過了'

\* buzzRecords.some(r => r.name === socket.guestName)
AlreadyBuzzedNever(recs, name) == FALSE

\* any record in the ledger counts as a duplicate
AlreadyBuzzedAny(recs, name) == recs # <<>>

AlreadyBuzzed(recs, name) == \E i \in 1..Len(recs) : recs[i].name = name

\* now - roundStartTime
ResponseTimeReversed(t, start) == ToNumber(start) - t

ResponseTime(t, start) == t - ToNumber(start)

\* buzzRecords.sort((a, b) => a.time - b.time): a stable sort
NoSort(recs) == recs

\* an unstable sort: a record is placed before the records of equal time
RECURSIVE SortUnstable(_)
SortUnstable(recs) ==
    IF recs = <<>> THEN <<>>
    ELSE LET init == SortUnstable(SubSeq(recs, 1, Len(recs) - 1))
             r == recs[Len(recs)]
             k == Cardinality({i \in 1..Len(init) : init[i].time < r.time})
         IN  SubSeq(init, 1, k) \o <<r>> \o SubSeq(init, k + 1, Len(init))

RECURSIVE SortByTime(_)
SortByTime(recs) ==
    IF recs = <<>> THEN <<>>
    ELSE LET init == SortByTime(SubSeq(recs, 1, Len(recs) - 1))
             r == recs[Len(recs)]
             k == Cardinality({i \in 1..Len(init) : init[i].time <= r.time})
         IN  SubSeq(init, 1, k) \o <<r>> \o SubSeq(init, k + 1, Len(init))

\* buzzRecords.findIndex(r => r.name === name): 0-based, -1 when absent
FindIndex(recs, name) ==
    IF \E i \in 1..Len(recs) : recs[i].name = name
    THEN (CHOOSE i \in 1..Len(recs) :
              /\ recs[i].name = name
              /\ \A j \in 1..(i - 1) : recs[j].name # name) - 1
    ELSE -1

\* position: findIndex(...) + 1
PositionZeroBased(recs, name) == FindIndex(recs, name)

Position(recs, name) == FindIndex(recs, name) + 1

\* ---- initial state ----
Init ==
    /\ guests = [x \in {} |-> 0]
    /\ buzzRecords = <<>>
    /\ roundStartTime = Null
    /\ isRoundActive = FALSE
    /\ guestName = [s \in Sockets |-> NoName]
    /\ status = [s \in Sockets |-> "fresh"]
    /\ now = 0
    /\ out = <<>>
    /\ lastSignal = [op |-> "none", sock |-> 0]
    /\ ledgerBefore = <<>>

\* what every handler records on entry
Handled(op, s) ==
    /\ lastSignal' = [op |-> op, sock |-> s]
    /\ ledgerBefore' = buzzRecords

\* ---- the clock ----
ClockAdvance ==
    /\ now < MaxTime
    /\ now' = now + 1
    /\ UNCHANGED << guests, buzzRecords, roundStartTime, isRoundActive,
                    guestName, status, out, lastSignal, ledgerBefore >>

\* Date.now() is wall-clock time: the system clock can be set back
ClockSetBack ==
    /\ now > 0
    /\ \E t \in 0..(now - 1) : now' = t
    /\ UNCHANGED << guests, buzzRecords, roundStartTime, isRoundActive,
                    guestName, status, out, lastSignal, ledgerBefore >>

\* ---- handlers ----
Connect(s) ==
    /\ status[s] = "fresh"
    /\ status' = [status EXCEPT ![s] = "connected"]
    /\ out' = <<>>
    /\ Handled("connection", s)
    /\ UNCHANGED << guests, buzzRecords, roundStartTime, isRoundActive,
                    guestName, now >>

\* a name already in the Map is not taken over
RegisterFirstWins(s, name) ==
    /\ status[s] = "connected"
    /\ Handled("register", s)
    /\ IF Truthy(name) /\ Truthy(Trim(name))
       THEN LET trimmedName == Trim(name)
                newGuests == IF trimmedName \in DOMAIN guests
                             THEN guests
                             ELSE MapSet(guests, trimmedName, s)
            IN  /\ guests' = newGuests
                /\ guestName' = [guestName EXCEPT ![s] = trimmedName]
                /\ out' = << MsgRegistered(s, trimmedName),
                             MsgGuestCount(All, MapSize(newGuests)) >>
       ELSE /\ out' = <<>>
            /\ UNCHANGED << guests, guestName >>
    /\ UNCHANGED << buzzRecords, roundStartTime, isRoundActive, status, now >>

Register(s, name) ==
    /\ status[s] = "connected"
    /\ Handled("register", s)
    /\ IF Truthy(name) /\ Truthy(Trim(name))
       THEN LET trimmedName == Trim(name)
                newGuests == MapSet(guests, trimmedName, s)
            IN  /\ guests' = newGuests
                /\ guestName' = [guestName EXCEPT ![s] = trimmedName]
                /\ out' = << MsgRegistered(s, trimmedName),
                             MsgGuestCount(All, MapSize(newGuests)) >>
       ELSE /\ out' = <<>>
            /\ UNCHANGED << guests, guestName >>
    /\ UNCHANGED << buzzRecords, roundStartTime, isRoundActive, status, now >>

\* the duplicate check replies but does not return
BuzzFallThrough(s) ==
    /\ status[s] = "connected"
    /\ Handled("buzz", s)
    /\ IF guestName[s] = NoName
       THEN /\ out' = <<>>
            /\ UNCHANGED buzzRecords
       ELSE IF ~isRoundActive
       THEN /\ out' = << MsgBuzzRejected(s, NotActiveText) >>
            /\ UNCHANGED buzzRecords
       ELSE LET responseTime == ResponseTime(now, roundStartTime)
                pushed == Append(buzzRecords,
                                 [ name |-> guestName[s],
                                   time |-> responseTime,
                                   timestamp |-> now ])
                sorted == SortByTime(pushed)
                dup == IF AlreadyBuzzed(buzzRecords, guestName[s])
                       THEN << MsgBuzzRejected(s, AlreadyBuzzedText) >>
                       ELSE <<>>
            IN  /\ buzzRecords' = sorted
                /\ out' = dup \o
                          << MsgBuzzAccepted(s, Position(sorted, guestName[s])),
                             MsgBuzzUpdate(All, sorted) >>
    /\ UNCHANGED << guests, roundStartTime, isRoundActive, guestName,
                    status, now >>

\* the isRoundActive check is missing
BuzzUngated(s) ==
    /\ status[s] = "connected"
    /\ Handled("buzz", s)
    /\ IF guestName[s] = NoName
       THEN /\ out' = <<>>
            /\ UNCHANGED buzzRecords
       ELSE IF AlreadyBuzzed(buzzRecords, guestName[s])
       THEN /\ out' = << MsgBuzzRejected(s, AlreadyBuzzedText) >>
            /\ UNCHANGED buzzRecords
       ELSE LET responseTime == ResponseTime(now, roundStartTime)
                pushed == Append(buzzRecords,
                                 [ name |-> guestName[s],
                                   time |-> responseTime,
                                   timestamp |-> now ])
                sorted == SortByTime(pushed)
            IN  /\ buzzRecords' = sorted
                /\ out' = << MsgBuzzAccepted(s, Position(sorted, guestName[s])),
                             MsgBuzzUpdate(All, sorted) >>
    /\ UNCHANGED << guests, roundStartTime, isRoundActive, guestName,
                    status, now >>

\* the broadcast carries the ledger as it was before the push
BuzzStaleBroadcast(s) ==
    /\ status[s] = "connected"
    /\ Handled("buzz", s)
    /\ IF guestName[s] = NoName
       THEN /\ out' = <<>>
            /\ UNCHANGED buzzRecords
       ELSE IF ~isRoundActive
       THEN /\ out' = << MsgBuzzRejected(s, NotActiveText) >>
            /\ UNCHANGED buzzRecords
       ELSE IF AlreadyBuzzed(buzzRecords, guestName[s])
       THEN /\ out' = << MsgBuzzRejected(s, AlreadyBuzzedText) >>
            /\ UNCHANGED buzzRecords
       ELSE LET responseTime == ResponseTime(now, roundStartTime)
                pushed == Append(buzzRecords,
                                 [ name |-> guestName[s],
                                   time |-> responseTime,
                                   timestamp |-> now ])
                sorted == SortByTime(pushed)
            IN  /\ buzzRecords' = sorted
                /\ out' = << MsgBuzzAccepted(s, Position(sorted, guestName[s])),
                             MsgBuzzUpdate(All, buzzRecords) >>
    /\ UNCHANGED << guests, roundStartTime, isRoundActive, guestName,
                    status, now >>

\* an accepted buzz closes the round
BuzzClosesRound(s) ==
    /\ status[s] = "connected"
    /\ Handled("buzz", s)
    /\ IF guestName[s] = NoName
       THEN /\ out' = <<>>
            /\ UNCHANGED << buzzRecords, isRoundActive >>
       ELSE IF ~isRoundActive
       THEN /\ out' = << MsgBuzzRejected(s, NotActiveText) >>
            /\ UNCHANGED << buzzRecords, isRoundActive >>
       ELSE IF AlreadyBuzzed(buzzRecords, guestName[s])
       THEN /\ out' = << MsgBuzzRejected(s, AlreadyBuzzedText) >>
            /\ UNCHANGED << buzzRecords, isRoundActive >>
       ELSE LET responseTime == ResponseTime(now, roundStartTime)
                pushed == Append(buzzRecords,
                                 [ name |-> guestName[s],
                                   time |-> responseTime,
                                   timestamp |-> now ])
                sorted == SortByTime(pushed)
            IN  /\ buzzRecords' = sorted
                /\ isRoundActive' = FALSE
                /\ out' = << MsgBuzzAccepted(s, Position(sorted, guestName[s])),
                             MsgBuzzUpdate(All, sorted) >>
    /\ UNCHANGED << guests, roundStartTime, guestName, status, now >>

Buzz(s) ==
    /\ status[s] = "connected"
    /\ Handled("buzz", s)
    /\ IF guestName[s] = NoName
       THEN /\ out' = <<>>
            /\ UNCHANGED buzzRecords
       ELSE IF ~isRoundActive
       THEN /\ out' = << MsgBuzzRejected(s, NotActiveText) >>
            /\ UNCHANGED buzzRecords
       ELSE IF AlreadyBuzzed(buzzRecords, guestName[s])
       THEN /\ out' = << MsgBuzzRejected(s, AlreadyBuzzedText) >>
            /\ UNCHANGED buzzRecords
       ELSE LET responseTime == ResponseTime(now, roundStartTime)
                pushed == Append(buzzRecords,
                                 [ name |-> guestName[s],
                                   time |-> responseTime,
                                   timestamp |-> now ])
                sorted == SortByTime(pushed)
            IN  /\ buzzRecords' = sorted
                /\ out' = << MsgBuzzAccepted(s, Position(sorted, guestName[s])),
                             MsgBuzzUpdate(All, sorted) >>
    /\ UNCHANGED << guests, roundStartTime, isRoundActive, guestName,
                    status, now >>

\* the ledger is not reset
StartRoundKeepsRecords(s) ==
    /\ status[s] = "connected"
    /\ Handled("startRound", s)
    /\ roundStartTime' = now
    /\ isRoundActive' = TRUE
    /\ out' = << MsgBuzzUpdate(All, buzzRecords), Msg(All, "roundStarted") >>
    /\ UNCHANGED << guests, buzzRecords, guestName, status, now >>

\* roundStarted is emitted before the empty ledger
StartRoundSignalFirst(s) ==
    /\ status[s] = "connected"
    /\ Handled("startRound", s)
    /\ buzzRecords' = <<>>
    /\ roundStartTime' = now
    /\ isRoundActive' = TRUE
    /\ out' = << Msg(All, "roundStarted"), MsgBuzzUpdate(All, <<>>) >>
    /\ UNCHANGED << guests, guestName, status, now >>

StartRound(s) ==
    /\ status[s] = "connected"
    /\ Handled("startRound", s)
    /\ buzzRecords' = <<>>
    /\ roundStartTime' = now
    /\ isRoundActive' = TRUE
    /\ out' = << MsgBuzzUpdate(All, <<>>), Msg(All, "roundStarted") >>
    /\ UNCHANGED << guests, guestName, status, now >>

\* roundStartTime is not reset
ClearRecordsKeepsStart(s) ==
    /\ status[s] = "connected"
    /\ Handled("clearRecords", s)
    /\ buzzRecords' = <<>>
    /\ isRoundActive' = FALSE
    /\ out' = << MsgBuzzUpdate(All, <<>>), Msg(All, "recordsCleared") >>
    /\ UNCHANGED << guests, roundStartTime, guestName, status, now >>

\* isRoundActive is not reset
ClearRecordsStaysActive(s) ==
    /\ status[s] = "connected"
    /\ Handled("clearRecords", s)
    /\ buzzRecords' = <<>>
    /\ roundStartTime' = Null
    /\ out' = << MsgBuzzUpdate(All, <<>>), Msg(All, "recordsCleared") >>
    /\ UNCHANGED << guests, isRoundActive, guestName, status, now >>

ClearRecords(s) ==
    /\ status[s] = "connected"
    /\ Handled("clearRecords", s)
    /\ buzzRecords' = <<>>
    /\ roundStartTime' = Null
    /\ isRoundActive' = FALSE
    /\ out' = << MsgBuzzUpdate(All, <<>>), Msg(All, "recordsCleared") >>
    /\ UNCHANGED << guests, guestName, status, now >>

GetState(s) ==
    /\ status[s] = "connected"
    /\ Handled("getState", s)
    /\ out' = << MsgBuzzUpdate(s, buzzRecords),
                 MsgGuestCount(s, MapSize(guests)),
                 MsgRoundState(s, isRoundActive) >>
    /\ UNCHANGED << guests, buzzRecords, roundStartTime, isRoundActive,
                    guestName, status, now >>

\* the count is read before the entry is deleted
DisconnectStaleCount(s) ==
    /\ status[s] = "connected"
    /\ Handled("disconnect", s)
    /\ status' = [status EXCEPT ![s] = "disconnected"]
    /\ IF guestName[s] # NoName
       THEN /\ guests' = MapDelete(guests, guestName[s])
            /\ out' = << MsgGuestCount(All, MapSize(guests)) >>
       ELSE /\ out' = <<>>
            /\ UNCHANGED guests
    /\ UNCHANGED << buzzRecords, roundStartTime, isRoundActive, guestName, now >>

\* the record of the leaving participant is removed from the ledger
DisconnectDropsRecord(s) ==
    /\ status[s] = "connected"
    /\ Handled("disconnect", s)
    /\ status' = [status EXCEPT ![s] = "disconnected"]
    /\ IF guestName[s] # NoName
       THEN LET newGuests == MapDelete(guests, guestName[s])
                keep(r) == r.name # guestName[s]
            IN  /\ guests' = newGuests
                /\ buzzRecords' = SelectSeq(buzzRecords, keep)
                /\ out' = << MsgGuestCount(All, MapSize(newGuests)) >>
       ELSE /\ out' = <<>>
            /\ UNCHANGED << guests, buzzRecords >>
    /\ UNCHANGED << roundStartTime, isRoundActive, guestName, now >>

Disconnect(s) ==
    /\ status[s] = "connected"
    /\ Handled("disconnect", s)
    /\ status' = [status EXCEPT ![s] = "disconnected"]
    /\ IF guestName[s] # NoName
       THEN LET newGuests == MapDelete(guests, guestName[s])
            IN  /\ guests' = newGuests
                /\ out' = << MsgGuestCount(All, MapSize(newGuests)) >>
       ELSE /\ out' = <<>>
            /\ UNCHANGED guests
    /\ UNCHANGED << buzzRecords, roundStartTime, isRoundActive, guestName, now >>

\* ---- specifications ----
Next ==
    \/ ClockAdvance
    \/ ClockSetBack
    \/ \E s \in Sockets : Connect(s)
    \/ \E s \in Sockets : \E name \in RawNames : Register(s, name)
    \/ \E s \in Sockets : Buzz(s)
    \/ \E s \in Sockets : StartRound(s)
    \/ \E s \in Sockets : ClearRecords(s)
    \/ \E s \in Sockets : GetState(s)
    \/ \E s \in Sockets : Disconnect(s)

Spec == Init /\ [][Next]_vars

\* the same program under a clock that never goes backwards
NextMonotonic ==
    \/ ClockAdvance
    \/ \E s \in Sockets : Connect(s)
    \/ \E s \in Sockets : \E name \in RawNames : Register(s, name)
    \/ \E s \in Sockets : Buzz(s)
    \/ \E s \in Sockets : StartRound(s)
    \/ \E s \in Sockets : ClearRecords(s)
    \/ \E s \in Sockets : GetState(s)
    \/ \E s \in Sockets : Disconnect(s)

SpecMonotonic == Init /\ [][NextMonotonic]_vars

\* ---- properties ----
TypeOK ==
    /\ DOMAIN guests \subseteq { Trim(n) : n \in RawNames } \ {NoName}
    /\ \A n \in DOMAIN guests : guests[n] \in Sockets
    /\ roundStartTime \in {Null} \cup 0..MaxTime
    /\ isRoundActive \in BOOLEAN
    /\ now \in 0..MaxTime
    /\ \A s \in Sockets : status[s] \in {"fresh", "connected", "disconnected"}

\* the last handler was a buzz of socket s sent under a registered name
BuzzedNamed(s) ==
    /\ lastSignal = [op |-> "buzz", sock |-> s]
    /\ guestName[s] # NoName

\* C1: in every reachable state the ledger holds at most one record per
\* participant name.
C1_OneRecordPerName ==
    \A i, j \in 1..Len(buzzRecords) :
        buzzRecords[i].name = buzzRecords[j].name => i = j

\* two participants have a record and a duplicate buzz was just turned away
C1_Witness ==
    /\ Len(buzzRecords) = 2
    /\ \E s \in Sockets :
        /\ BuzzedNamed(s)
        /\ out = << MsgBuzzRejected(s, AlreadyBuzzedText) >>

\* C2: a buzz of a registered participant handled while the round is not
\* active is answered with the NotActive reply, to the sender alone, and
\* leaves the ledger as it was.
C2_NotActiveRejected ==
    \A s \in Sockets :
        (BuzzedNamed(s) /\ ~isRoundActive) =>
            /\ out = << MsgBuzzRejected(s, NotActiveText) >>
            /\ buzzRecords = ledgerBefore

\* a registered participant buzzed after clearRecords, before a new round
C2_Witness ==
    \E s \in Sockets :
        /\ BuzzedNamed(s)
        /\ ~isRoundActive
        /\ now > 0
        /\ out = << MsgBuzzRejected(s, NotActiveText) >>

\* C3: a buzz under a name that already has a record in the ledger of the
\* active round is answered with the AlreadyBuzzed reply and leaves the
\* ledger, its length and its records, unchanged.
C3_DuplicateRejected ==
    \A s \in Sockets :
        (BuzzedNamed(s) /\ isRoundActive
            /\ AlreadyBuzzed(ledgerBefore, guestName[s])) =>
            /\ out = << MsgBuzzRejected(s, AlreadyBuzzedText) >>
            /\ buzzRecords = ledgerBefore
            /\ Len(buzzRecords) = Len(ledgerBefore)

\* a second buzz under a name whose record is in the ledger
C3_Witness ==
    \E s \in Sockets :
        /\ BuzzedNamed(s)
        /\ isRoundActive
        /\ AlreadyBuzzed(ledgerBefore, guestName[s])
        /\ Len(ledgerBefore) = 1

\* C4: after every handler the ledger is sorted non-decreasing by elapsed
\* time.
C4_SortedByTime ==
    \A i \in 1..(Len(buzzRecords) - 1) :
        buzzRecords[i].time <= buzzRecords[i + 1].time

\* an accepted buzz whose record the sort moved in front of an older record
C4_Witness ==
    /\ lastSignal.op = "buzz"
    /\ Len(ledgerBefore) = 1
    /\ Len(buzzRecords) = 2
    /\ buzzRecords[2] = ledgerBefore[1]
    /\ buzzRecords[1].time < buzzRecords[2].time

\* the last handler accepted a buzz of socket s
BuzzAccepted(s) ==
    /\ BuzzedNamed(s)
    /\ out # <<>>
    /\ out[1].event = "buzzResult"
    /\ out[1].success

\* C5: the position returned in buzzResult of an accepted buzz is the
\* 1-based index of the submitter's record in the buzzUpdate broadcast
\* right after it by the same handler.
C5_PositionIsIndex ==
    \A s \in Sockets :
        BuzzAccepted(s) =>
            /\ Len(out) = 2
            /\ out[1].to = s
            /\ out[2].event = "buzzUpdate"
            /\ out[2].to = All
            /\ out[1].position \in 1..Len(out[2].records)
            /\ \A i \in 1..Len(out[2].records) :
                   (out[2].records[i].name = guestName[s])
                       <=> (i = out[1].position)

\* an accepted buzz ranked second of two
C5_Witness ==
    \E s \in Sockets :
        /\ BuzzAccepted(s)
        /\ out[1].position = 2
        /\ Len(out[2].records) = 2

\* C6: a record enters the ledger only through a buzz handled while the
\* round is active; its elapsed time is the time of handling minus the
\* start time of the round active then, and is >= 0 when the clock never
\* goes backwards.
C6_RecordOnlyWhileActive ==
    [][ /\ (buzzRecords' # buzzRecords /\ buzzRecords' # <<>>) =>
            /\ lastSignal'.op = "buzz"
            /\ isRoundActive
            /\ roundStartTime # Null
            /\ \E i \in 1..Len(buzzRecords') :
                /\ buzzRecords'[i].time = now - roundStartTime
                /\ buzzRecords'[i].timestamp = now
                /\ buzzRecords'[i].name = guestName[lastSignal'.sock]
                /\ \A j \in 1..Len(buzzRecords') :
                       j # i =>
                           \E k \in 1..Len(buzzRecords) :
                               buzzRecords[k] = buzzRecords'[j]
                /\ Len(buzzRecords') = Len(buzzRecords) + 1
        /\ \A i \in 1..Len(buzzRecords') :
            /\ isRoundActive'
            /\ buzzRecords'[i].time
                   = buzzRecords'[i].timestamp - roundStartTime'
            /\ buzzRecords'[i].time >= 0
      ]_vars

\* an accepted buzz added a record with a positive elapsed time to a
\* ledger that held a record already
C6_Witness ==
    /\ isRoundActive
    /\ lastSignal.op = "buzz"
    /\ Len(ledgerBefore) = 1
    /\ Len(buzzRecords) = 2
    /\ buzzRecords[2].time > 0
    /\ buzzRecords[2].time = now - roundStartTime

\* C7: after clearRecords the ledger is empty, the round is not active and
\* the round start time is absent, whatever the ledger held before.
C7_ClearResets ==
    lastSignal.op = "clearRecords" =>
        /\ buzzRecords = <<>>
        /\ ~isRoundActive
        /\ roundStartTime = Null

\* clearRecords handled with two records in the ledger
C7_Witness ==
    /\ lastSignal.op = "clearRecords"
    /\ Len(ledgerBefore) = 2
    /\ buzzRecords = <<>>

\* C8: startRound from any state leaves the round active, the start time
\* set to the current time and the ledger empty; in an active round with
\* an empty ledger, as startRound leaves it, the buzz of any registered
\* participant is accepted, also of one who had a record before.
C8_StartRoundRestarts ==
    [][ /\ (lastSignal'.op = "startRound" /\ now' = now) =>
            /\ isRoundActive'
            /\ roundStartTime' = now
            /\ buzzRecords' = <<>>
        /\ \A s \in Sockets :
            ( /\ lastSignal.op = "startRound"
              /\ lastSignal' = [op |-> "buzz", sock |-> s]
              /\ guestName[s] # NoName ) =>
                /\ out'[1] = MsgBuzzAccepted(s, 1)
                /\ Len(buzzRecords') = 1
                /\ buzzRecords'[1].name = guestName[s]
      ]_vars

\* startRound handled in an active round that held two records
C8_Witness ==
    /\ lastSignal.op = "startRound"
    /\ Len(ledgerBefore) = 2
    /\ roundStartTime = now
    /\ now > 0
    /\ buzzRecords = <<>>

\* C9: the disconnect of a connection removes the Registry entry of its
\* cached name only if that entry still maps to the same connection; an
\* entry taken over by another connection stays, and so does the count.
C9_DisconnectKeepsTakenOverName ==
    [][ \A s \in Sockets :
          ( /\ lastSignal' = [op |-> "disconnect", sock |-> s]
            /\ status[s] = "connected"
            /\ guestName[s] \in DOMAIN guests
            /\ guests[guestName[s]] # s ) =>
              /\ guests' = guests
              /\ MapSize(guests') = MapSize(guests)
      ]_vars

\* C10: after a connection has disconnected no Registry entry maps to it.
C10_NoEntryAfterDisconnect ==
    \A s \in Sockets :
        status[s] = "disconnected" =>
            \A n \in DOMAIN guests : guests[n] # s

\* io.emit reaches every connected socket, socket.emit the one socket
Receives(s, m) == m.to = s \/ (m.to = All /\ status[s] = "connected")

\* the step is a successful register of socket s
RegisteredBy(s) ==
    /\ lastSignal' = [op |-> "register", sock |-> s]
    /\ now' = now
    /\ out' # <<>>
    /\ out'[1] = MsgRegistered(s, guestName'[s])

\* C11 (as stated): after a successful register the entry of the name maps
\* to the registering connection, and the connection that held the name
\* before receives no message.
C11_PreviousHolderReceivesNothing ==
    [][ \A s \in Sockets :
          RegisteredBy(s) =>
              /\ guestName'[s] \in DOMAIN guests'
              /\ guests'[guestName'[s]] = s
              /\ \A prev \in Sockets \ {s} :
                   ( /\ guestName'[s] \in DOMAIN guests
                     /\ guests[guestName'[s]] = prev ) =>
                       \A i \in 1..Len(out') : ~Receives(prev, out'[i])
      ]_vars

\* C11 (amended): after a successful register the entry of the name maps
\* to the registering connection (last writer wins); no message is
\* addressed to the previous holder, the only message that reaches it is
\* the guestCount broadcast that every connection receives.
C11_LastWriterWins ==
    [][ \A s \in Sockets :
          RegisteredBy(s) =>
              /\ guestName'[s] \in DOMAIN guests'
              /\ guests'[guestName'[s]] = s
              /\ Cardinality({n \in DOMAIN guests' : n = guestName'[s]}) = 1
              /\ \A i \in 1..Len(out') :
                   \/ out'[i].to = s
                   \/ out'[i] = MsgGuestCount(All, MapSize(guests'))
      ]_vars

\* a name held by a connected socket is now held by the other socket
C11_Witness ==
    \E s \in Sockets : \E prev \in Sockets \ {s} :
        /\ lastSignal = [op |-> "register", sock |-> s]
        /\ out # <<>>
        /\ guestName[s] = guestName[prev]
        /\ status[prev] = "connected"
        /\ guests[guestName[s]] = s

\* the last handler was a register of socket s that did not register a name
RegisterRefused(s) ==
    /\ lastSignal = [op |-> "register", sock |-> s]
    /\ \A i \in 1..Len(out) :
           ~(out[i].event = "registered" /\ out[i].success)

\* the last handler reported a refusal to socket s and to nobody else
RefusalSentOnlyTo(s, event) ==
    /\ Len(out) = 1
    /\ out[1].to = s
    /\ out[1].event = event
    /\ ~out[1].success

\* C12: each of the three refusals (empty or whitespace-only name on
\* register, buzz while the round is idle, duplicate buzz within a round)
\* is reported by a message sent to the originating connection and to no
\* other connection.
C12_RefusalsAreUnicast ==
    \A s \in Sockets :
        /\ RegisterRefused(s) => RefusalSentOnlyTo(s, "registered")
        /\ (BuzzedNamed(s) /\ ~isRoundActive)
               => RefusalSentOnlyTo(s, "buzzResult")
        /\ (BuzzedNamed(s) /\ isRoundActive
               /\ AlreadyBuzzed(ledgerBefore, guestName[s]))
               => RefusalSentOnlyTo(s, "buzzResult")

\* the record the last accepted buzz of socket s added
NewRecord(s) ==
    buzzRecords[CHOOSE i \in 1..Len(buzzRecords) :
                    buzzRecords[i].name = guestName[s]]

\* C13 (as stated): within a round the ledger is in the order in which the
\* buzzes were handled: an accepted buzz leaves every earlier record at its
\* position and puts its own record behind them.
C13_LedgerInArrivalOrder ==
    \A s \in Sockets :
        BuzzAccepted(s) => buzzRecords = Append(ledgerBefore, NewRecord(s))

\* C13 (amended): an accepted buzz whose elapsed time is not smaller than
\* any recorded one, as it is whenever the clock was not set back during
\* the round, leaves every earlier record at its position and puts its own
\* record behind them, also behind records of equal elapsed time.
C13_ArrivalOrderWhenNotEarlier ==
    \A s \in Sockets :
        ( /\ BuzzAccepted(s)
          /\ \A i \in 1..Len(ledgerBefore) :
                 ledgerBefore[i].time <= NewRecord(s).time ) =>
            buzzRecords = Append(ledgerBefore, NewRecord(s))

\* a buzz accepted with the same elapsed time as the record before it
C13_Witness ==
    \E s \in Sockets :
        /\ BuzzAccepted(s)
        /\ Len(ledgerBefore) = 1
        /\ Len(buzzRecords) = 2
        /\ buzzRecords[1].time = buzzRecords[2].time
        /\ buzzRecords[2].name = guestName[s]

\* the last handler was the first buzz of socket s in an active round whose
\* records all belong to the other sockets
FirstBuzz(s) ==
    /\ BuzzedNamed(s)
    /\ isRoundActive
    /\ \A i \in 1..Len(ledgerBefore) : ledgerBefore[i].name # guestName[s]
    /\ \A i \in 1..Len(ledgerBefore) :
           \E t \in Sockets \ {s} : guestName[t] = ledgerBefore[i].name

\* C14 (as stated): the first buzz of each of N connections with N
\* distinct names in one active round is accepted, and the positions
\* returned are exactly 1..N: the k-th buzz handled is told position k.
C14_PositionsAreOneToN ==
    \A s \in Sockets :
        FirstBuzz(s) =>
            /\ BuzzAccepted(s)
            /\ out[1].position = Len(ledgerBefore) + 1

\* C14 (amended): every such first buzz is accepted and adds one record;
\* the k-th buzz handled is told position k provided its elapsed time is
\* not smaller than a recorded one, as when the clock was not set back
\* during the round.
C14_PositionsWhenNotEarlier ==
    \A s \in Sockets :
        FirstBuzz(s) =>
            /\ BuzzAccepted(s)
            /\ Len(buzzRecords) = Len(ledgerBefore) + 1
            /\ out[1].position \in 1..Len(buzzRecords)
            /\ (\A i \in 1..Len(ledgerBefore) :
                    ledgerBefore[i].time <= NewRecord(s).time)
                   => out[1].position = Len(ledgerBefore) + 1

\* two connections with distinct names buzzed, the second is told 2
C14_Witness ==
    \E s \in Sockets : \E t \in Sockets \ {s} :
        /\ FirstBuzz(s)
        /\ Len(ledgerBefore) = 1
        /\ ledgerBefore[1].name = guestName[t]
        /\ status[t] = "connected"
        /\ out = << MsgBuzzAccepted(s, 2), MsgBuzzUpdate(All, buzzRecords) >>

\* message m is a broadcast of the ledger
IsLedgerBroadcast(m) == m.event = "buzzUpdate" /\ m.to = All

\* C15: a handler that changes the ledger, and every startRound and
\* clearRecords, broadcasts the full new ledger to all connections; every
\* ledger broadcast carries the ledger as the handler leaves it; a rejected
\* buzz broadcasts nothing.
C15_LedgerBroadcastOnMutation ==
    [][ /\ ( \/ buzzRecords' # buzzRecords
             \/ (lastSignal'.op \in {"startRound", "clearRecords"}
                    /\ now' = now) ) =>
              \E i \in 1..Len(out') : out'[i] = MsgBuzzUpdate(All, buzzRecords')
        /\ \A i \in 1..Len(out') :
              IsLedgerBroadcast(out'[i]) => out'[i].records = buzzRecords'
        /\ ( /\ lastSignal'.op = "buzz"
             /\ now' = now
             /\ buzzRecords' = buzzRecords ) =>
              \A i \in 1..Len(out') : out'[i].to # All
      ]_vars

\* an accepted buzz broadcast a ledger of two records
C15_Witness ==
    /\ lastSignal.op = "buzz"
    /\ Len(ledgerBefore) = 1
    /\ Len(out) = 2
    /\ IsLedgerBroadcast(out[2])
    /\ Len(out[2].records) = 2
    /\ out[2].records = buzzRecords

\* C16: a register or disconnect that changes the Registry (its size or an
\* entry) broadcasts a guestCount carrying the new number of names to all
\* connections, as its last message; every guestCount broadcast carries the
\* size the handler leaves.
C16_GuestCountBroadcastOnChange ==
    [][ /\ (guests' # guests) =>
              /\ lastSignal'.op \in {"register", "disconnect"}
              /\ out' # <<>>
              /\ out'[Len(out')] = MsgGuestCount(All, MapSize(guests'))
        /\ \A i \in 1..Len(out') :
              (out'[i].event = "guestCount" /\ out'[i].to = All)
                  => out'[i].count = MapSize(guests')
      ]_vars

\* a disconnect lowered the number of names from two to one
C16_Witness ==
    /\ lastSignal.op = "disconnect"
    /\ MapSize(guests) = 1
    /\ out = << MsgGuestCount(All, 1) >>
    /\ \E s \in Sockets : status[s] = "connected" /\ guestName[s] \in DOMAIN guests

\* C17: startRound broadcasts an empty buzzUpdate and then roundStarted,
\* clearRecords an empty buzzUpdate and then recordsCleared, in that order
\* and nothing else.
C17_SnapshotBeforeLifecycleSignal ==
    /\ lastSignal.op = "startRound" =>
           out = << MsgBuzzUpdate(All, <<>>), Msg(All, "roundStarted") >>
    /\ lastSignal.op = "clearRecords" =>
           out = << MsgBuzzUpdate(All, <<>>), Msg(All, "recordsCleared") >>

\* startRound handled with a record in the ledger: the empty snapshot is
\* the first message, roundStarted the second
C17_Witness ==
    /\ lastSignal.op = "startRound"
    /\ ledgerBefore # <<>>
    /\ IsLedgerBroadcast(out[1])
    /\ out[1].records = <<>>
    /\ out[2].event = "roundStarted"

\* C18: the round state (active flag and start time) changes only in a
\* startRound or clearRecords handler; connection, register, buzz, getState
\* and disconnect leave both unchanged.
C18_RoundStateFrame ==
    [][ (isRoundActive' # isRoundActive \/ roundStartTime' # roundStartTime)
            => /\ lastSignal'.op \in {"startRound", "clearRecords"}
               /\ now' = now
      ]_vars

\* a round still active after an accepted buzz and a getState
C18_Witness ==
    \E s \in Sockets :
        /\ lastSignal = [op |-> "getState", sock |-> s]
        /\ isRoundActive
        /\ buzzRecords # <<>>
        /\ out[3] = MsgRoundState(s, TRUE)

\* C19: in every reachable state the round is active exactly when the
\* round start time is present, so the start time is present whenever a
\* buzz is accepted and for every record of the ledger.
C19_ActiveIffStartTime ==
    /\ isRoundActive <=> (roundStartTime # Null)
    /\ buzzRecords # <<>> => roundStartTime # Null

\* a record taken in a round started at time 1
C19_Witness ==
    /\ isRoundActive
    /\ roundStartTime = 1
    /\ buzzRecords # <<>>
    /\ buzzRecords[1].time = buzzRecords[1].timestamp - roundStartTime

\* C20: in every reachable state a round that is not active has an empty
\* ledger, and a disconnect leaves the ledger as it was: the record of a
\* participant survives its disconnect.
C20_RecordsOnlyWhileActive ==
    /\ ~isRoundActive => buzzRecords = <<>>
    /\ lastSignal.op = "disconnect" => buzzRecords = ledgerBefore

\* a participant with a record in the ledger has disconnected
C20_Witness ==
    \E s \in Sockets :
        /\ lastSignal = [op |-> "disconnect", sock |-> s]
        /\ status[s] = "disconnected"
        /\ isRoundActive
        /\ AlreadyBuzzed(buzzRecords, guestName[s])

====
